---------------------------- MODULE Spec2Model ----------------------------
(***************************************************************************)
(* Model of zchee/go-openapi-tools: the identifier normalizer (Depunct and *)
(* FixName), the service partitioning of the Generator (GetMethods and     *)
(* GetService) and what generate emits for every Service (WriteAPI with    *)
(* WriteMethods) and for every schema (WriteModel).                        *)
(*                                                                         *)
(* A Go string is a sequence of one-character strings.  Only ASCII is      *)
(* modelled.                                                               *)
(***************************************************************************)
EXTENDS Integers, Sequences, FiniteSets, TLC

VARIABLES
    ident,      \* Depunct: the raw name handed to Depunct
    needCap,    \* Depunct: the capitalization flag handed to Depunct
    npc,        \* position of the normalizer run: "start", "done", "again"
    sb,         \* Depunct: the strings.Builder content after the scan loop
    fixed,      \* Depunct: s right after s := FixName(sb.String())
    out,        \* outcome of Depunct(ident, needCap): [panic, val]
    out2,       \* outcome of Depunct(out.val, needCap): [panic, val]
    doc,          \* Generator.openAPI: [Tags, Paths], the parsed document
    methods,      \* Generator.methods: map[*Service]PathItemsMap
    methodsOnce,  \* Generator.methodsOnce has run
    services,     \* Generator.services
    servicesOnce, \* Generator.servicesOnce has run
    crashed,      \* the process died of a run-time panic
    visited,      \* the (path, method) pairs the loop of GetMethods got through
    partitionRuns, \* how often the function of g.methodsOnce.Do was entered
    sortRuns,      \* how often the function of g.servicesOnce.Do got to its sort
    cached,        \* the last call found its sync.Once done and computed nothing
    produced,      \* the Methods WriteMethods emitted, Service by Service
    models,        \* the models WriteModel emitted, schema by schema
    hung,          \* the process is in a loop that never ends
    cmd            \* the run of the command: its flags, its position, the
                   \* schema file, the output location and what was written

nvars == <<ident, needCap, npc, sb, fixed, out, out2>>

gvars == <<doc, methods, methodsOnce, services, servicesOnce, crashed, visited,
          partitionRuns, sortRuns, cached, produced, models, hung>>

vars == <<ident, needCap, npc, sb, fixed, out, out2,
          doc, methods, methodsOnce, services, servicesOnce, crashed, visited,
          partitionRuns, sortRuns, cached, produced, models, hung, cmd>>

-----------------------------------------------------------------------------
(* Bounds of the model.                                                    *)

\* Longest raw name drawn exhaustively from Alphabet.
MaxLen == 4

\* Most tags a document declares.
MaxTags == 2

\* Most tags an operation declares.
MaxOpTags == 2

-----------------------------------------------------------------------------
(* Characters: package unicode restricted to ASCII.                        *)

LowerLetters ==
    <<"a", "b", "c", "d", "e", "f", "g", "h", "i", "j", "k", "l", "m",
      "n", "o", "p", "q", "r", "s", "t", "u", "v", "w", "x", "y", "z">>

UpperLetters ==
    <<"A", "B", "C", "D", "E", "F", "G", "H", "I", "J", "K", "L", "M",
      "N", "O", "P", "Q", "R", "S", "T", "U", "V", "W", "X", "Y", "Z">>

Digits == {"0", "1", "2", "3", "4", "5", "6", "7", "8", "9"}

LowerSet == {LowerLetters[k] : k \in 1..26}

UpperSet == {UpperLetters[k] : k \in 1..26}

LetterIndex(c) ==
    CHOOSE k \in 1..26 : LowerLetters[k] = c \/ UpperLetters[k] = c

IsLower(c) == c \in LowerSet

IsDigit(c) == c \in Digits

ToUpper(c) == IF c \in LowerSet THEN UpperLetters[LetterIndex(c)] ELSE c

ToLower(c) == IF c \in UpperSet THEN LowerLetters[LetterIndex(c)] ELSE c

\* strings.ToUpper / strings.ToLower
StrToUpper(s) == [k \in 1..Len(s) |-> ToUpper(s[k])]

StrToLower(s) == [k \in 1..Len(s) |-> ToLower(s[k])]

-----------------------------------------------------------------------------
(* FixName and its table.                                                  *)

commonInitialisms == {
    <<"A", "C", "L">>, <<"A", "P", "I">>, <<"A", "S", "C", "I", "I">>, <<"C", "P", "U">>,
    <<"C", "S", "S">>, <<"D", "N", "S">>, <<"E", "O", "F">>, <<"G", "U", "I", "D">>,
    <<"H", "T", "M", "L">>, <<"H", "T", "T", "P">>, <<"H", "T", "T", "P", "S">>,
    <<"I", "D">>, <<"I", "P">>, <<"J", "S", "O", "N">>, <<"L", "H", "S">>,
    <<"Q", "P", "S">>, <<"R", "A", "M">>, <<"R", "H", "S">>, <<"R", "P", "C">>,
    <<"S", "L", "A">>, <<"S", "M", "T", "P">>, <<"S", "Q", "L">>, <<"S", "S", "H">>,
    <<"T", "C", "P">>, <<"T", "L", "S">>, <<"T", "T", "L">>, <<"U", "D", "P">>,
    <<"U", "I">>, <<"U", "I", "D">>, <<"U", "U", "I", "D">>, <<"U", "R", "I">>,
    <<"U", "R", "L">>, <<"U", "T", "F", "8">>, <<"V", "M">>, <<"X", "M", "L">>,
    <<"X", "M", "P", "P">>, <<"X", "S", "R", "F">>, <<"X", "S", "S">> }

\* runes[i] with Go's 0-based index
At(runes, i) == runes[i + 1]

\* the inner for loop of the underscore case: the length of the run of
\* underscores that starts at runes[i+1]
RECURSIVE UnderscoreRun(_, _, _)
UnderscoreRun(runes, i, n) ==
    IF i + n + 1 < Len(runes) /\ At(runes, i + n + 1) = "_"
    THEN UnderscoreRun(runes, i, n + 1)
    ELSE n

\* copy(runes[w:], []rune(u))
CopyAt(runes, w, u) ==
    [k \in 1..Len(runes) |->
        IF k > w /\ k <= w + Len(u) THEN u[k - w] ELSE runes[k]]

\* FixWord that always writes the upper-case initialism
FixWordAlwaysUpper(runes, w, i) ==
    LET word == SubSeq(runes, w + 1, i)
        u    == StrToUpper(word)
    IN  IF u \in commonInitialisms
        THEN CopyAt(runes, w, u)
        ELSE IF w > 0 /\ StrToLower(word) = word
        THEN [runes EXCEPT ![w + 1] = ToUpper(@)]
        ELSE runes

\* The body of "[w,i) is a word": the initialism and capitalization fix.
FixWord(runes, w, i) ==
    LET word == SubSeq(runes, w + 1, i)
        u    == StrToUpper(word)
    IN  IF u \in commonInitialisms
        THEN CopyAt(runes, w,
                    IF w = 0 /\ IsLower(At(runes, w)) THEN StrToLower(u) ELSE u)
        ELSE IF w > 0 /\ StrToLower(word) = word
        THEN [runes EXCEPT ![w + 1] = ToUpper(@)]
        ELSE runes

\* The scan loop of FixName: w is the start of the word, i the scan index.
RECURSIVE FixLoop(_, _, _)
FixLoop(runes, w, i) ==
    IF ~(i + 1 <= Len(runes)) THEN runes
    ELSE
      LET atEnd  == i + 1 = Len(runes)
          atUS   == ~atEnd /\ At(runes, i + 1) = "_"
          n0     == UnderscoreRun(runes, i, 1)
          n      == IF /\ i + n0 + 1 < Len(runes)
                       /\ IsDigit(At(runes, i))
                       /\ IsDigit(At(runes, i + n0 + 1))
                    THEN n0 - 1 ELSE n0
          runes1 == IF atUS
                    THEN SubSeq(runes, 1, i + 1) \o SubSeq(runes, i + n + 2, Len(runes))
                    ELSE runes
          atCase == /\ ~atEnd /\ ~atUS
                    /\ IsLower(At(runes, i)) /\ ~IsLower(At(runes, i + 1))
          eow    == atEnd \/ atUS \/ atCase
      IN  IF ~eow THEN FixLoop(runes1, w, i + 1)
          ELSE FixLoop(FixWord(runes1, w, i + 1), i + 1, i + 1)

FixName(name) ==
    IF name = <<"_">> THEN name
    ELSE IF name = <<"t", "y", "p", "e">> THEN <<"t", "y", "p">>
    ELSE IF \A k \in 1..Len(name) : IsLower(name[k]) THEN name
    ELSE FixLoop(name, 0, 0)

-----------------------------------------------------------------------------
(* Depunct.                                                                *)

\* Punct with '-' forgotten
PunctNoDash == {".", "$", "/"}

\* the characters Depunct always elides
Punct == {"-", ".", "$", "/"}

\* DepunctLoop whose elision of a lone '_' does not set needCap
RECURSIVE DepunctLoopNoCap(_, _, _, _, _)
DepunctLoopNoCap(id, i, cap, preserve, acc) ==
    IF i > Len(id) THEN acc
    ELSE
      LET c == id[i]
          twoUS == i + 1 <= Len(id) /\ id[i + 1] = "_"
      IN  IF c = "_" /\ ~(preserve \/ twoUS)
          THEN DepunctLoopNoCap(id, i + 1, cap, preserve, acc)
          ELSE
            LET preserve1 == (c = "_")
            IN  IF c \in Punct
                THEN DepunctLoopNoCap(id, i + 1, TRUE, preserve1, acc)
                ELSE DepunctLoopNoCap(id, i + 1, FALSE, preserve1,
                                      Append(acc, IF cap THEN ToUpper(c) ELSE c))

\* The for loop of Depunct over ident[i..]; cap and preserve are the loop's
\* needCap and preserve, acc is the strings.Builder.
RECURSIVE DepunctLoop(_, _, _, _, _)
DepunctLoop(id, i, cap, preserve, acc) ==
    IF i > Len(id) THEN acc
    ELSE
      LET c == id[i]
          twoUS == i + 1 <= Len(id) /\ id[i + 1] = "_"
      IN  IF c = "_" /\ ~(preserve \/ twoUS)
          THEN DepunctLoop(id, i + 1, TRUE, preserve, acc)
          ELSE
            LET preserve1 == (c = "_")
            IN  IF c \in Punct
                THEN DepunctLoop(id, i + 1, TRUE, preserve1, acc)
                ELSE DepunctLoop(id, i + 1, FALSE, preserve1,
                                 Append(acc, IF cap THEN ToUpper(c) ELSE c))

DepunctScan(id, cap) == DepunctLoop(id, 1, cap, FALSE, <<>>)

\* DepunctFinish without the "X_" prefix
DepunctFinishNoPrefix(s) ==
    IF s = <<"T", "y", "p">> THEN [panic |-> FALSE, val |-> <<"T", "y", "p", "e">>]
    ELSE IF Len(s) = 0 THEN [panic |-> TRUE, val |-> <<>>]
    ELSE [panic |-> FALSE, val |-> s]

\* What Depunct does with s := FixName(sb.String()): s[0] of an empty s is an
\* index out of range, a run-time panic.
DepunctFinish(s) ==
    IF s = <<"T", "y", "p">> THEN [panic |-> FALSE, val |-> <<"T", "y", "p", "e">>]
    ELSE IF Len(s) = 0 THEN [panic |-> TRUE, val |-> <<>>]
    ELSE IF IsDigit(s[1]) THEN [panic |-> FALSE, val |-> <<"X", "_">> \o s]
    ELSE [panic |-> FALSE, val |-> s]

Depunct(id, cap) == DepunctFinish(FixName(DepunctScan(id, cap)))

-----------------------------------------------------------------------------
(* The Generator: GetMethods and GetService.                               *)

\* the bytes of the modelled strings in ascending order of their value
AsciiOrder ==
    <<"$", "-", ".", "/", "0", "1", "2", "3", "4", "5", "6", "7", "8", "9",
      "A", "B", "C", "D", "E", "F", "G", "H", "I", "J", "K", "L", "M",
      "N", "O", "P", "Q", "R", "S", "T", "U", "V", "W", "X", "Y", "Z", "_",
      "a", "b", "c", "d", "e", "f", "g", "h", "i", "j", "k", "l", "m",
      "n", "o", "p", "q", "r", "s", "t", "u", "v", "w", "x", "y", "z",
      "{", "}">>

Ord(c) == CHOOSE k \in 1..Len(AsciiOrder) : AsciiOrder[k] = c

\* a < b for Go strings
StrLess(a, b) ==
    \E k \in 1..(Len(b)) :
        /\ \A j \in 1..(k - 1) : j <= Len(a) /\ a[j] = b[j]
        /\ k > Len(a) \/ Ord(a[k]) < Ord(b[k])

\* var defaultService = &Service{Name: "default"}
defaultService == [id |-> 0, Name |-> <<"d", "e", "f", "a", "u", "l", "t">>]

\* The *Service GetMethods allocates for the k-th declared tag: the id
\* stands for the pointer.
TagService(d, k) == [id |-> k, Name |-> d.Tags[k]]

\* g.methods right after the switch on len(g.openAPI.Tags)
InitialMethods(d) ==
    IF Len(d.Tags) = 0
    THEN (defaultService :> <<>>)
    ELSE [s \in {TagService(d, k) : k \in 1..Len(d.Tags)} |-> <<>>]

\* m[path] = append(m[path], item) on a PathItemsMap
AppendItem(m, path, item) ==
    IF path \in DOMAIN m
    THEN [m EXCEPT ![path] = Append(@, item)]
    ELSE m @@ (path :> <<item>>)

\* AttachToAll that attaches only to the Services named by the operation's tag
AttachToNamed(ms, op, path) ==
    [s \in DOMAIN ms |->
        IF s.Name = op.Tags[1] THEN AppendItem(ms[s], path, path) ELSE ms[s]]

\* case 1 of the switch on len(op.Tags): the item goes to every key of
\* g.methods
AttachToAll(ms, op, path) ==
    [s \in DOMAIN ms |-> AppendItem(ms[s], path, path)]

\* VisitOperation whose second case takes every operation that has tags
VisitOperationAnyTags(d, st, path, verb) ==
    LET op == d.Paths[path][verb]
    IN  IF st.panic THEN st
        ELSE IF Len(op.Tags) = 0
        THEN IF defaultService \in DOMAIN st.methods
             THEN [st EXCEPT !.methods[defaultService] = AppendItem(@, path, path),
                             !.visited = @ \cup {<<path, verb>>}]
             ELSE [st EXCEPT !.panic = TRUE]
        ELSE [st EXCEPT !.methods = AttachToAll(@, op, path),
                        !.visited = @ \cup {<<path, verb>>}]

\* One pass of the inner loop of GetMethods, for the operation of item path
\* under method verb.  A path item is named by its path.  Indexing g.methods
\* by a missing defaultService yields a nil map, and the assignment to its
\* entry is a run-time panic.
VisitOperation(d, st, path, verb) ==
    LET op == d.Paths[path][verb]
    IN  IF st.panic THEN st
        ELSE IF Len(op.Tags) = 0
        THEN IF defaultService \in DOMAIN st.methods
             THEN [st EXCEPT !.methods[defaultService] = AppendItem(@, path, path),
                             !.visited = @ \cup {<<path, verb>>}]
             ELSE [st EXCEPT !.panic = TRUE]
        ELSE IF Len(op.Tags) = 1
        THEN [st EXCEPT !.methods = AttachToAll(@, op, path),
                        !.visited = @ \cup {<<path, verb>>}]
        ELSE [st EXCEPT !.visited = @ \cup {<<path, verb>>}]

RECURSIVE VisitAll(_, _, _, _)
VisitAll(d, st, order, k) ==
    IF k > Len(order) THEN st
    ELSE VisitAll(d, VisitOperation(d, st, order[k][1], order[k][2]), order, k + 1)

\* the methods item.Operations() can hold
Verbs == {"GET", "POST"}

\* the (path, method) pairs of the document
Operations(d) ==
    {pv \in (DOMAIN d.Paths) \X Verbs : pv[2] \in DOMAIN d.Paths[pv[1]]}

\* the orders in which a range loop can yield the keys S of a map
RangeOrders(S) ==
    LET n == Cardinality(S)
    IN  {o \in [1..n -> S] : \A i, j \in 1..n : i # j => o[i] # o[j]}

\* the orders in which item.Operations() of any item can be ranged over
VerbOrders == UNION {RangeOrders(V) : V \in SUBSET Verbs}

\* the pairs visited for the paths po[k..], vo[p] ordering the methods of p
RECURSIVE VisitSeq(_, _, _)
VisitSeq(po, vo, k) ==
    IF k > Len(po) THEN <<>>
    ELSE [j \in 1..Len(vo[po[k]]) |-> <<po[k], vo[po[k]][j]>>] \o VisitSeq(po, vo, k + 1)

\* The orders in which the two nested range loops over the maps
\* g.openAPI.Paths and item.Operations() can visit the operations: the
\* paths in any order, and the methods of each path in any order.
VisitOrders(d) ==
    LET P == DOMAIN d.Paths
    IN  {VisitSeq(po, vo, 1) :
            po \in RangeOrders(P),
            vo \in {f \in [P -> VerbOrders] :
                       \A p \in P : f[p] \in RangeOrders(DOMAIN d.Paths[p])}}

\* The function run by g.methodsOnce.Do, for one visiting order.
Partition(d, order) ==
    VisitAll(d, [methods |-> InitialMethods(d), visited |-> {}, panic |-> FALSE],
             order, 1)

\* sort.SliceStable(g.services, ... Name < Name): a stable insertion
RECURSIVE InsertStable(_, _)
InsertStable(sorted, x) ==
    IF sorted = <<>> THEN <<x>>
    ELSE IF StrLess(x.Name, sorted[Len(sorted)].Name)
    THEN Append(InsertStable(SubSeq(sorted, 1, Len(sorted) - 1), x), sorted[Len(sorted)])
    ELSE Append(sorted, x)

RECURSIVE SortStable(_, _)
SortStable(seq, k) ==
    IF k = 0 THEN <<>> ELSE InsertStable(SortStable(seq, k - 1), seq[k])

TagNames == {<<"a">>, <<"Z">>}

PathNames == {"/a", "/b"}

\* the tag lists an operation can carry: only their length is read
OpTags ==
    {<<>>} \cup {<<n>> : n \in TagNames}
    \cup {[i \in 1..k |-> <<"a">>] : k \in 2..MaxOpTags}

PathItems == UNION {[V -> [Tags : OpTags]] : V \in SUBSET Verbs}

Documents ==
    [Tags  : UNION {[1..k -> TagNames] : k \in 0..MaxTags},
     Paths : UNION {[P -> PathItems] : P \in SUBSET PathNames}]

-----------------------------------------------------------------------------
(* The Generator: WriteMethods.                                            *)

IsUpper(c) == c \in UpperSet

\* strings.Index(s, c) for a one-byte c: the position counted from 0, -1
\* when c does not occur
IndexByte(s, c) ==
    IF \E k \in 1..Len(s) : s[k] = c
    THEN (CHOOSE k \in 1..Len(s) : s[k] = c /\ \A j \in 1..(k - 1) : s[j] # c) - 1
    ELSE -1

\* strings.LastIndex(s, c) for a one-byte c
LastIndexByte(s, c) ==
    IF \E k \in 1..Len(s) : s[k] = c
    THEN (CHOOSE k \in 1..Len(s) : s[k] = c /\ \A j \in (k + 1)..Len(s) : s[j] # c) - 1
    ELSE -1

\* the Go slice expression s[lo:hi], positions counted from 0
Slice(s, lo, hi) == SubSeq(s, lo + 1, hi)

\* NormalizeParam: s[0] of an empty s is a run-time panic
NormalizeParam(param) ==
    LET idx == LastIndexByte(param, "]")
        s == IF idx > -1 THEN Slice(param, idx + 1, Len(param)) ELSE param
    IN  IF Len(s) = 0 THEN [panic |-> TRUE, val |-> <<>>]
        ELSE IF IsUpper(s[1])
        THEN [panic |-> FALSE, val |-> <<ToLower(s[1])>> \o Tail(s)]
        ELSE [panic |-> FALSE, val |-> s]

\* paramName := NormalizeParam(Depunct(name, false))
ParamName(name) ==
    LET d == Depunct(name, FALSE)
    IN  IF d.panic THEN d ELSE NormalizeParam(d.val)

\* strings.ReplaceAll(s, "Get", "")
RECURSIVE RemoveGet(_)
RemoveGet(s) ==
    IF Len(s) < 3 THEN s
    ELSE IF SubSeq(s, 1, 3) = <<"G", "e", "t">> THEN RemoveGet(SubSeq(s, 4, Len(s)))
    ELSE <<s[1]>> \o RemoveGet(Tail(s))

\* The value the first loop of WriteMethods assigns to o.OperationID, id
\* being its value before: Depunct, then the "Go idiom".
NormalizedOperationID(id) ==
    LET r == Depunct(id, TRUE)
    IN  IF r.panic \/ r.val = <<"G", "e", "t">> THEN r
        ELSE [panic |-> FALSE, val |-> RemoveGet(r.val)]

\* the bytes of the method names item.Operations() uses as keys
MethodBytes ==
    [GET |-> <<"G", "E", "T">>, POST |-> <<"P", "O", "S", "T">>]

\* sort.Strings
RECURSIVE InsertString(_, _)
InsertString(sorted, x) ==
    IF sorted = <<>> THEN <<x>>
    ELSE IF StrLess(x, sorted[Len(sorted)])
    THEN Append(InsertString(SubSeq(sorted, 1, Len(sorted) - 1), x), sorted[Len(sorted)])
    ELSE Append(sorted, x)

RECURSIVE SortStringsTo(_, _)
SortStringsTo(seq, k) ==
    IF k = 0 THEN <<>> ELSE InsertString(SortStringsTo(seq, k - 1), seq[k])

\* SortStrings that leaves the slice as the range loops filled it
UnsortedStrings(seq) == seq

SortStrings(seq) == SortStringsTo(seq, Len(seq))

\* One pass of the innermost loop of the first part of WriteMethods, on the
\* operation o of item under method verb: o is an operation of the document,
\* and the assignment to o.OperationID changes the document.
GatherOperation(st, path, item, verb) ==
    IF st.panic THEN st
    ELSE
      LET r == NormalizedOperationID(st.doc.Paths[item][verb].OperationID)
      IN  IF r.panic
          THEN [st EXCEPT !.methods = Append(@, MethodBytes[verb]),
                          !.panic = TRUE]
          ELSE [st EXCEPT !.methods = Append(@, MethodBytes[verb]),
                          !.doc.Paths[item][verb].OperationID = r.val,
                          !.operations =
                              (<<path, MethodBytes[verb]>> :> <<item, verb>>) @@ @]

RECURSIVE GatherVerbs(_, _, _, _, _)
GatherVerbs(st, path, item, vo, k) ==
    IF k > Len(vo) THEN st
    ELSE GatherVerbs(GatherOperation(st, path, item, vo[k]), path, item, vo, k + 1)

\* the loop over pathItems: io[k] is the order in which the range over the
\* Operations() of the k-th item yields its methods
RECURSIVE GatherItems(_, _, _, _, _)
GatherItems(st, path, pathItems, io, k) ==
    IF k > Len(pathItems) THEN st
    ELSE GatherItems(GatherVerbs(st, path, pathItems[k], io[k], 1),
                     path, pathItems, io, k + 1)

\* the loop over g.methods[service], pim, its paths yielded in the order po
RECURSIVE GatherPaths(_, _, _, _, _)
GatherPaths(st, pim, po, ios, k) ==
    IF k > Len(po) \/ st.panic THEN st
    ELSE GatherPaths(GatherItems([st EXCEPT !.paths = Append(@, po[k])],
                                 po[k], pim[po[k]], ios[po[k]], 1),
                     pim, po, ios, k + 1)

\* the orders in which the methods of the items pathItems[1..k] can be
\* yielded, one order for each item
RECURSIVE ItemOrders(_, _, _)
ItemOrders(d, pathItems, k) ==
    IF k = 0 THEN {<<>>}
    ELSE {Append(io, vo) :
             io \in ItemOrders(d, pathItems, k - 1),
             vo \in RangeOrders(DOMAIN d.Paths[pathItems[k]])}

\* the item orders of every path of P
RECURSIVE PathItemOrders(_, _, _)
PathItemOrders(d, pim, P) ==
    IF P = {} THEN {<<>>}
    ELSE LET p == CHOOSE q \in P : TRUE
         IN  {(p :> io) @@ ios :
                 io \in ItemOrders(d, pim[p], Len(pim[p])),
                 ios \in PathItemOrders(d, pim, P \ {p})}

\* The orders in which the three nested loops of the first part can run:
\* the paths of pim in any order and, for each item met, its methods in any
\* order.
GatherOrders(d, pim) ==
    {[po |-> po, ios |-> ios] :
        po \in RangeOrders(DOMAIN pim),
        ios \in PathItemOrders(d, pim, DOMAIN pim)}

\* Gather that leaves the paths and the methods as the loops appended them
GatherUnsorted(d, pim, order) ==
    GatherPaths([doc |-> d, paths |-> <<>>, methods |-> <<>>,
                 operations |-> <<>>, panic |-> FALSE],
                pim, order.po, order.ios, 1)

\* The first part of WriteMethods (lines 657-679) for one order of its
\* loops: the document as the assignments leave it, the sorted paths, the
\* sorted methods and the operations map.
Gather(d, pim, order) ==
    LET st == GatherPaths([doc |-> d, paths |-> <<>>, methods |-> <<>>,
                           operations |-> <<>>, panic |-> FALSE],
                          pim, order.po, order.ios, 1)
    IN  [st EXCEPT !.paths = SortStrings(@), !.methods = SortStrings(@)]

\* contains(s, ss): whether the string s is an element of the slice ss
contains(s, ss) == \E k \in 1..Len(ss) : ss[k] = s

typeConvMap ==
    [integer |-> "int32", long |-> "int64", number |-> "float32",
     float |-> "float32", double |-> "float64", BigDecimal |-> "float64",
     boolean |-> "bool", string |-> "string", UUID |-> "string",
     URI |-> "string", date |-> "string", DateTime |-> "time.Time",
     password |-> "string", File |-> "*os.File", file |-> "*os.File",
     binary |-> "string", ByteArray |-> "string", array |-> "interface{}",
     object |-> "map[string]interface{}"]

\* pm[in] after the bucket switch and the stable sort by Parameter.Name
Bucket(op, in) ==
    LET IsIn(p) == p.In = in
        ps == SelectSeq(op.Parameters, IsIn)
    IN  SortStable(ps, Len(ps))

\* ScanPlaceholders that takes the declared parameters as they are sorted
DeclaredOrder(pth, params, acc) ==
    [panic |-> FALSE, hang |-> FALSE, val |-> params]

\* The loop that orders the path parameters by the {xxx} of the path: pth is
\* what is left of the path, acc the pathParam slice.  pth[idx+1:idx+1+endIdx]
\* with endIdx = -1 and pth[idx+endIdx:] with idx+endIdx = -1 are slice
\* bounds out of range, a run-time panic; with idx+endIdx = 0 the assignment
\* leaves pth as it is and the loop never ends.
RECURSIVE ScanPlaceholders(_, _, _)
ScanPlaceholders(pth, params, acc) ==
    LET idx == IndexByte(pth, "{")
        endIdx == IndexByte(Slice(pth, idx + 1, Len(pth)), "}")
        Named(p) == p.Name = Slice(pth, idx + 1, idx + 1 + endIdx)
    IN  IF idx = -1 THEN [panic |-> FALSE, hang |-> FALSE, val |-> acc]
        ELSE IF (endIdx = -1 /\ params # <<>>) \/ idx + endIdx < 0
        THEN [panic |-> TRUE, hang |-> FALSE, val |-> acc]
        ELSE IF idx + endIdx = 0
        THEN [panic |-> FALSE, hang |-> TRUE, val |-> acc]
        ELSE ScanPlaceholders(Slice(pth, idx + endIdx, Len(pth)), params,
                              acc \o SelectSeq(params, Named))

\* the outcome of emitting one element: a panic, nothing, or the element
Panics == [panic |-> TRUE, keep |-> FALSE, val |-> <<>>]

Skipped == [panic |-> FALSE, keep |-> FALSE, val |-> <<>>]

Emitted(v) == [panic |-> FALSE, keep |-> TRUE, val |-> v]

\* the elements emitted for a slice whose elements have the outcomes rs
EmittedOf(rs) ==
    LET Kept(r) == r.keep
        ks == SelectSeq(rs, Kept)
    IN  [k \in 1..Len(ks) |-> ks[k].val]

SomePanic(rs) == \E k \in 1..Len(rs) : rs[k].panic

\* a field of the call struct for a path parameter (lines 747-755):
\* param.Value.Schema.Value of a nil Schema is a nil dereference
PathField(param) ==
    LET n == ParamName(param.Name)
    IN  IF n.panic \/ ~param.HasSchema THEN Panics
        ELSE IF param.Type \notin DOMAIN typeConvMap THEN Skipped
        ELSE Emitted([name |-> n.val, type |-> typeConvMap[param.Type]])

\* a field of the call struct for a query parameter (lines 760-771)
QueryField(param) ==
    LET n == ParamName(param.Name)
    IN  IF n.panic THEN Panics
        ELSE IF ~param.HasSchema THEN Skipped
        ELSE IF param.Type \notin DOMAIN typeConvMap THEN Skipped
        ELSE Emitted([name |-> n.val, type |-> typeConvMap[param.Type]])

\* an argument of the method that returns the call (lines 816-821)
CtorArg(param) ==
    LET n == Depunct(param.Name, FALSE)
    IN  IF n.panic \/ ~param.HasSchema THEN Panics
        ELSE Emitted([name |-> n.val, type |-> param.Type])

\* a field initializer of the call (lines 829-831)
FieldInit(param) ==
    LET n == Depunct(param.Name, FALSE)
    IN  IF n.panic THEN Panics ELSE Emitted(n.val)

\* a query method chain (lines 840-852): typeConvMap[...] of a missing key
\* is the empty string
Setter(param) ==
    LET n == ParamName(param.Name)
        a == Depunct(n.val, TRUE)
    IN  IF n.panic THEN Panics
        ELSE IF a.panic THEN Panics
        ELSE IF ~param.HasSchema THEN Skipped
        ELSE Emitted([name |-> a.val, arg |-> n.val,
                      type |-> IF param.Type \in DOMAIN typeConvMap
                               THEN typeConvMap[param.Type] ELSE ""])

\* a field of the response struct for prop (lines 783-798): omitempty
\* unless prop.Ref is in prop.Value.Required, the list of the property
ResponseField(prop) ==
    IF prop.Ref = <<>> \/ ~prop.HasValue THEN Skipped
    ELSE LET n == ParamName(prop.Ref)
         IN  IF n.panic THEN Panics
             ELSE IF prop.Type \notin DOMAIN typeConvMap THEN Skipped
             ELSE Emitted([name |-> n.val, type |-> typeConvMap[prop.Type],
                           json |-> prop.Ref,
                           omitempty |-> ~contains(prop.Ref, prop.Required)])

\* the text line 865 puts in the place of a {xxx}
Substitution(name) ==
    <<"\"", " ", "+", " ", "f", "m", "t", ".", "S", "p", "r", "i", "n", "t",
      "f", "(", "\"", "%", "v", "\"", ",", " ", "c", ".">>
    \o name \o <<")", " ", "+", " ", "\"">>

\* The loop that replaces the {xxx} of path (lines 857-867), for the path
\* parameters params[k..].
RECURSIVE ReplacePlaceholders(_, _, _)
ReplacePlaceholders(path, params, k) ==
    LET idx == IndexByte(path, "{")
        endIdx == IndexByte(Slice(path, idx + 1, Len(path)), "}")
    IN  IF k > Len(params) \/ idx = -1 THEN path
        ELSE ReplacePlaceholders(
                 Slice(path, 0, idx)
                 \o Substitution(Depunct(params[k].Name, FALSE).val)
                 \o Slice(path, idx + 1 + endIdx + 1, Len(path)),
                 params, k + 1)

\* the order in which the properties of no response are ranged over
NoResponseOrder == [co |-> <<>>, po |-> <<>>]

\* The orders in which the two range loops over the Content of the 200
\* response of op and over the Properties of each content can run.
ResponseOrders(op) ==
    IF "200" \notin DOMAIN op.Responses THEN {NoResponseOrder}
    ELSE LET content == op.Responses["200"].Content
             C == DOMAIN content
             PropOrders == UNION {RangeOrders(DOMAIN content[c].Properties) : c \in C}
         IN  {[co |-> co, po |-> po] :
                 co \in RangeOrders(C),
                 po \in {f \in [C -> PropOrders] :
                            \A c \in C : f[c] \in RangeOrders(DOMAIN content[c].Properties)}}

\* the outcomes of the properties of the contents co[k..] of resp
RECURSIVE ResponseOutcomes(_, _, _)
ResponseOutcomes(content, ro, k) ==
    IF k > Len(ro.co) THEN <<>>
    ELSE LET schema == content[ro.co[k]]
             names == ro.po[ro.co[k]]
         IN  (IF ~schema.Resolved THEN <<Panics>>
              ELSE [j \in 1..Len(names) |-> ResponseField(schema.Properties[names[j]])])
             \o ResponseOutcomes(content, ro, k + 1)

\* The fields of the response struct (lines 779-800): Responses["200"] of an
\* operation without that response is nil, and resp.Value is a nil
\* dereference; so is content.Schema.Value.Properties of an unresolved schema.
ResponseFields(op, ro) ==
    IF "200" \notin DOMAIN op.Responses THEN <<Panics>>
    ELSE ResponseOutcomes(op.Responses["200"].Content, ro, 1)

Call == <<"C", "a", "l", "l">>

\* What one pass of the body of the second loop emits for the operation op
\* found under path and method (lines 686-907).
Method(path, method, op, methType, ro) ==
    LET pathBucket == Bucket(op, "path")
        queryBucket == Bucket(op, "query")
        scan == ScanPlaceholders(path, pathBucket, <<>>)
        pathParam == scan.val
        pathFields == [k \in 1..Len(pathParam) |-> PathField(pathParam[k])]
        queryFields == [k \in 1..Len(queryBucket) |-> QueryField(queryBucket[k])]
        response == ResponseFields(op, ro)
        args == [k \in 1..Len(pathParam) |-> CtorArg(pathParam[k])]
        inits == [k \in 1..Len(pathParam) |-> FieldInit(pathParam[k])]
        setters == [k \in 1..Len(queryBucket) |-> Setter(queryBucket[k])]
    IN  [hang |-> scan.hang,
         panic |-> \/ scan.panic
                   \/ SomePanic(pathFields) \/ SomePanic(queryFields)
                   \/ SomePanic(response) \/ SomePanic(args)
                   \/ SomePanic(inits) \/ SomePanic(setters),
         val |-> [path |-> path,
                  method |-> method,
                  id |-> op.OperationID,
                  type |-> methType,
                  pathParam |-> [k \in 1..Len(pathParam) |-> pathParam[k].Name],
                  fields |-> EmittedOf(pathFields) \o EmittedOf(queryFields),
                  response |-> EmittedOf(response),
                  args |-> EmittedOf(args),
                  inits |-> EmittedOf(inits),
                  setters |-> EmittedOf(setters),
                  uri |-> ReplacePlaceholders(path, pathParam, 1)]]

\* the operation operations[path][method] of the gathered g
Found(g, path, method) ==
    g.doc.Paths[g.operations[<<path, method>>][1]][g.operations[<<path, method>>][2]]

\* methType := fmt.Sprintf("%s%sCall", svcName, op.OperationID)
MethType(svcName, op) == svcName \o op.OperationID \o Call

\* The body of the second loop from the test of seen on, m being what it
\* emits for the operation.  The body assigns to the variable path of the
\* outer loop when it replaces the {xxx} (line 865): the next passes look
\* operations[path] up under the new value.
EmitUnlessSeen(st, m, methType) ==
    IF methType \in st.seen THEN st
    ELSE IF m.hang THEN [st EXCEPT !.hang = TRUE]
    ELSE IF m.panic THEN [st EXCEPT !.panic = TRUE]
    ELSE [st EXCEPT !.seen = @ \cup {methType},
                    !.out = Append(@, m.val),
                    !.path = m.val.uri]

\* the body of the second loop for the operation op
EmitOperation(st, method, op, methType, ro) ==
    EmitUnlessSeen(st, Method(st.path, method, op, methType, ro), methType)

\* One pass of the inner loop of the second part of WriteMethods; st.path
\* is the variable path of the outer loop.
EmitAt(st, g, svcName, method, ros) ==
    IF st.panic \/ st.hang \/ <<st.path, method>> \notin DOMAIN g.operations THEN st
    ELSE EmitOperation(st, method, Found(g, st.path, method),
                       MethType(svcName, Found(g, st.path, method)),
                       ros[g.operations[<<st.path, method>>]])

RECURSIVE EmitMethods(_, _, _, _, _)
EmitMethods(st, g, svcName, ros, j) ==
    IF j > Len(g.methods) THEN st
    ELSE EmitMethods(EmitAt(st, g, svcName, g.methods[j], ros),
                     g, svcName, ros, j + 1)

RECURSIVE EmitPaths(_, _, _, _, _)
EmitPaths(st, g, svcName, ros, k) ==
    IF k > Len(g.paths) THEN st
    ELSE EmitPaths(EmitMethods([st EXCEPT !.path = g.paths[k]], g, svcName, ros, 1),
                   g, svcName, ros, k + 1)

\* the operations of the items of pim, each named by its item and method
Targets(d, pim) ==
    {t \in (DOMAIN d.Paths) \X Verbs :
        /\ t[2] \in DOMAIN d.Paths[t[1]]
        /\ \E p \in DOMAIN pim : \E k \in 1..Len(pim[p]) : pim[p][k] = t[1]}

\* The orders in which the response of each operation of pim can be ranged
\* over.
ResponseOrderChoices(d, pim) ==
    LET T == Targets(d, pim)
        All == UNION {ResponseOrders(d.Paths[t[1]][t[2]]) : t \in T}
    IN  {f \in [T -> All] : \A t \in T : f[t] \in ResponseOrders(d.Paths[t[1]][t[2]])}

\* the outcome of WriteMethods whose second part ended in the state e
Outcome(g, e) ==
    [doc |-> g.doc, out |-> e.out, panic |-> e.panic, hang |-> e.hang]

\* The second part of WriteMethods (lines 681-910), g being what the first
\* part gathered.
Emit(g, svcName, ros) ==
    Outcome(g, EmitPaths([path |-> <<>>, seen |-> {}, out |-> <<>>,
                          panic |-> g.panic, hang |-> FALSE],
                         g, svcName, ros, 1))

\* WriteMethods(svcName, service), pim being g.methods[service], for one
\* order of its range loops: the document as it leaves it, the Methods it
\* emitted, and whether it ended in a panic or never ended.
WriteMethods(d, pim, svcName, order, ros) ==
    Emit(Gather(d, pim, order), svcName, ros)

-----------------------------------------------------------------------------
(* The Generator: WriteModel.                                              *)

\* typ, ok := typeConvMap[t], and the Go type written when ok
Converted(t, slice) ==
    IF t \in DOMAIN typeConvMap
    THEN Emitted([slice |-> slice, type |-> typeConvMap[t]])
    ELSE Skipped

\* The case "array" of the switches of WriteModel: val.Items.Value of a nil
\* Items is a nil dereference.
ArrayType(val) ==
    IF val.Items.kind = "nil" THEN Panics
    ELSE IF val.Items.kind = "ref" THEN Skipped
    ELSE Converted(val.Items.Type, TRUE)

\* The switch on val.Type (lines 966-1020 and 1023-1077): the Go type of a
\* property whose schema value is val.
ValueType(val) ==
    IF val.Type = "object"
    THEN IF val.AdditionalProperties.kind = "value"
         THEN LET objVal == val.AdditionalProperties
              IN  IF objVal.Type = "array" THEN ArrayType(objVal)
                  ELSE IF objVal.Type = "object"
                  THEN IF objVal.Items.kind = "nil" THEN Converted(objVal.Type, FALSE)
                       ELSE IF objVal.Items.kind = "ref" THEN Panics
                       ELSE Converted(objVal.Items.Type, FALSE)
                  ELSE Converted(objVal.Type, FALSE)
         ELSE Converted(val.Type, FALSE)
    ELSE IF val.Type = "array" THEN ArrayType(val)
    ELSE Converted(val.Type, FALSE)

\* pathpkg.Base of a reference that does not end in a slash
Base(ref) == Slice(ref, LastIndexByte(ref, "/") + 1, Len(ref))

\* The Go type of property (lines 957-1078): schemas[...] of a name that is
\* no schema is nil, and ref.Value is a nil dereference; so is val.Type of a
\* schema that is itself an unresolved reference.
PropertyType(property, schemas) ==
    IF property.Ref # <<>>
    THEN IF Base(property.Ref) \notin DOMAIN schemas THEN Panics
         ELSE IF schemas[Base(property.Ref)].kind # "value" THEN Panics
         ELSE ValueType(schemas[Base(property.Ref)])
    ELSE IF property.kind = "value" THEN ValueType(property)
    ELSE Skipped

\* the keys S of a map, sorted by sort.Strings
SortedKeys(S) ==
    LET n == Cardinality(S)
    IN  CHOOSE o \in [1..n -> S] : \A i, j \in 1..n : i < j => StrLess(o[i], o[j])

\* One pass of the loop that writes the accessors (lines 1082-1103), for the
\* property name: propertyTypes[field] of a missing key is "".
PropertyAccessor(name, propertyTypes) ==
    IF name \notin DOMAIN propertyTypes THEN Skipped
    ELSE LET f == Depunct(name, TRUE)
         IN  IF f.panic THEN Panics
             ELSE Emitted([name |-> f.val, json |-> name])

\* WriteModel(modelName, component, schemas): component.Value.Properties of
\* a component whose Value is nil is a nil dereference (line 915), and so is
\* modelName[0] of an empty name (line 1083).
WriteModel(modelName, component, schemas) ==
    IF component.kind # "value" THEN [panic |-> TRUE, val |-> <<>>]
    ELSE
      LET propertyNames == SortedKeys(DOMAIN component.Properties)
          types == [n \in DOMAIN component.Properties |->
                       PropertyType(component.Properties[n], schemas)]
          name == Depunct(modelName, TRUE)
          fields == [k \in 1..Len(propertyNames) |->
                       LET t == types[propertyNames[k]]
                           f == Depunct(propertyNames[k], TRUE)
                       IN  IF ~t.keep THEN t
                           ELSE IF f.panic THEN Panics
                           ELSE Emitted([name |-> f.val, type |-> t.val,
                                         json |-> propertyNames[k],
                                         omitempty |->
                                             ~contains(propertyNames[k],
                                                       component.Required)])]
          propertyTypes == [n \in {m \in DOMAIN types : types[m].keep} |-> types[n].val]
          accessors == [k \in 1..Len(propertyNames) |->
                          PropertyAccessor(propertyNames[k], propertyTypes)]
      IN  [panic |-> \/ name.panic \/ SomePanic(fields) \/ SomePanic(accessors)
                     \/ (propertyNames # <<>> /\ modelName = <<>>),
           val |-> [name |-> name.val,
                    fields |-> EmittedOf(fields),
                    accessors |-> EmittedOf(accessors)]]

-----------------------------------------------------------------------------
(* The documents of the generation run.                                    *)

\* operation identifiers: "getA" and "a" normalize to "A", "b" to "B",
\* "1a" to "X_1a" and then to "X1a", "getGet" to "" and "" not at all
RawOperationIDs ==
    {<<"g", "e", "t", "A">>, <<"a">>, <<"b">>}

OddOperationIDs ==
    {<<>>, <<"1", "a">>, <<"g", "e", "t", "G", "e", "t">>, <<"b">>}

PathA == <<"/", "a">>

PathB == <<"/", "b">>

PathID == <<"/", "{", "i", "d", "}">>

PathIDName ==
    <<"/", "a", "/", "{", "i", "d", "}", "/", "b", "/", "{", "n", "a", "m", "e", "}">>

PathNameID ==
    <<"/", "{", "n", "a", "m", "e", "}", "/", "{", "i", "d", "}">>

PathEmpty == <<"/", "{", "}">>

PathOpen == <<"/", "a", "/", "{">>

PathTwice == <<"/", "{", "i", "d", "}", "/", "{", "i", "d", "}">>

NameID == <<"i", "d">>

NameName == <<"n", "a", "m", "e">>

NameQ == <<"q">>

\* a *ParameterRef with its Value: HasSchema is Schema != nil, Type is
\* Schema.Value.Type
Param(name, in, hasSchema, type) ==
    [Name |-> name, In |-> in, HasSchema |-> hasSchema, Type |-> type]

\* "foo" is no key of typeConvMap
Params ==
    {Param(NameID, "path", TRUE, "string"),
     Param(NameID, "path", FALSE, ""),
     Param(NameName, "path", TRUE, "integer"),
     Param(NameName, "path", TRUE, "foo"),
     Param(NameQ, "query", TRUE, "boolean"),
     Param(NameQ, "query", TRUE, "foo"),
     Param(NameQ, "query", FALSE, "")}

\* a schema property of a response: Ref is its $ref, HasValue is
\* Value != nil, Type is Value.Type, Required is Value.Required
RequiredProperty(ref, hasValue, type, required) ==
    [Ref |-> ref, HasValue |-> hasValue, Type |-> type, Required |-> required]

\* a schema property of a response that requires nothing
ResponseProperty(ref, hasValue, type) ==
    RequiredProperty(ref, hasValue, type, <<>>)

RefTag == <<"#", "/", "T", "a", "g">>

RefID == <<"#", "/", "I", "d">>

\* the response every operation declares next to its 200 response, if any
DefaultResponse == ("default" :> [Content |-> <<>>])

\* the 200 response whose content of media type mt has a schema with the
\* properties props and the required names required
RequiredResponse200(mt, resolved, props, required) ==
    ("200" :> [Content |-> (mt :> [Resolved |-> resolved, Properties |-> props,
                                   Required |-> required])])
    @@ DefaultResponse

\* the 200 response whose schema requires nothing
Response200(mt, resolved, props) ==
    RequiredResponse200(mt, resolved, props, <<>>)

NoContent200 == ("200" :> [Content |-> <<>>]) @@ DefaultResponse

ResponsesSet ==
    {DefaultResponse,
     NoContent200,
     Response200("application/json", FALSE, <<>>),
     Response200("application/json", TRUE,
                 (<<"x">> :> ResponseProperty(RefTag, TRUE, "string"))
                 @@ (<<"y">> :> ResponseProperty(<<>>, TRUE, "string"))),
     Response200("application/json", TRUE,
                 (<<"x">> :> ResponseProperty(RefTag, TRUE, "string"))
                 @@ (<<"z">> :> ResponseProperty(RefID, TRUE, "integer")))}

Operation(tags, id, params, responses) ==
    [Tags |-> tags, OperationID |-> id, Parameters |-> params,
     Responses |-> responses]

\* the path items whose operations are drawn from ops
ItemsOf(ops) == UNION {[V -> ops] : V \in (SUBSET Verbs) \ {{}}}

ApiDocument(tags, paths, schemas) ==
    [Tags |-> tags, Paths |-> paths, Schemas |-> schemas]

\* the tags an operation declares in a document that declares docTags
OperationTags(docTags) == IF docTags = <<>> THEN <<>> ELSE <<docTags[1]>>

\* the path items of one operation drawn from ops
SingleItemsOf(ops) == UNION {[{v} -> ops] : v \in Verbs}

\* Documents that vary the tags, the paths, the methods and the operation
\* identifiers; /b has one operation.
IdentifierDocuments ==
    UNION {
      LET ops == {Operation(OperationTags(tags), id, <<>>, NoContent200) :
                     id \in RawOperationIDs}
      IN  {ApiDocument(tags, paths, <<>>) :
              paths \in {<<>>}
                        \cup {(PathA :> a) : a \in ItemsOf(ops)}
                        \cup {(PathB :> b) : b \in SingleItemsOf(ops)}
                        \cup {(PathA :> a) @@ (PathB :> b) :
                                 a \in ItemsOf(ops), b \in SingleItemsOf(ops)}}
      : tags \in {<<>>, <<<<"a">>>>, <<<<"Z">>, <<"a">>>>} }

\* Documents of one path that vary the tags of the operations and take in
\* the operation identifiers that normalize oddly.
OddDocuments ==
    UNION {
      LET ops == {Operation(optags, id, <<>>, NoContent200) :
                     optags \in {OperationTags(tags), <<<<"a">>, <<"a">>>>},
                     id \in OddOperationIDs}
      IN  {ApiDocument(tags, (PathA :> item), <<>>) : item \in ItemsOf(ops)}
      : tags \in {<<>>, <<<<"Z">>, <<"a">>>>} }

\* Most parameters an operation declares.
MaxParams == 2

\* Documents of one path with {xxx} that vary the declared parameters; the
\* operations of a path declare the same parameters.
ParameterDocuments ==
    UNION {
      {ApiDocument(<<>>,
                   (path :> [v \in V |->
                       Operation(<<>>, IF v = "GET" THEN <<"g", "e", "t", "A">> ELSE <<"b">>,
                                 params, NoContent200)]),
                   <<>>) :
          path \in {PathID, PathIDName, PathNameID},
          V \in {{"GET"}, {"GET", "POST"}}}
      : params \in UNION {[1..n -> Params] : n \in 0..MaxParams} }

\* Documents of one operation that vary its responses.
ResponseDocuments ==
    {ApiDocument(<<>>, (PathA :> [GET |-> Operation(<<>>, <<"b">>, <<>>, r)]), <<>>) :
        r \in ResponsesSet}

NoSchema == [kind |-> "nil", Type |-> ""]

UnresolvedRef == [kind |-> "ref", Type |-> ""]

ItemsOfType(t) == [kind |-> "value", Type |-> t]

NoAdditional == [kind |-> "nil", Type |-> "", Items |-> NoSchema]

\* a property of a schema: Ref is its $ref, kind tells whether its Value is
\* nil, Type, Items and AdditionalProperties are those of its Value
Property(ref, kind, type, items, additional) ==
    [Ref |-> ref, kind |-> kind, Type |-> type, Items |-> items,
     AdditionalProperties |-> additional]

RefNope == <<"#", "/", "N", "o", "p", "e">>

\* a string, a type typeConvMap has not, arrays with, without and with
\* unresolved items, references to a schema and to none, an object with
\* additional properties, and a property with neither $ref nor value
PropertySet ==
    {Property(<<>>, "value", "string", NoSchema, NoAdditional),
     Property(<<>>, "value", "foo", NoSchema, NoAdditional),
     Property(<<>>, "value", "array", ItemsOfType("integer"), NoAdditional),
     Property(<<>>, "value", "array", NoSchema, NoAdditional),
     Property(<<>>, "value", "array", UnresolvedRef, NoAdditional),
     Property(RefTag, "nil", "", NoSchema, NoAdditional),
     Property(RefNope, "nil", "", NoSchema, NoAdditional),
     Property(<<>>, "value", "object", NoSchema,
              [kind |-> "value", Type |-> "integer", Items |-> NoSchema]),
     Property(<<>>, "nil", "", NoSchema, NoAdditional)}

\* a component of Components.Schemas with the required names required
RequiredSchema(kind, type, props, required) ==
    [kind |-> kind, Type |-> type, Items |-> NoSchema,
     AdditionalProperties |-> NoAdditional, Properties |-> props,
     Required |-> required]

\* a component of Components.Schemas that requires nothing
Schema(kind, type, props) == RequiredSchema(kind, type, props, <<>>)

NamePet == <<"P", "e", "t">>

NameTag == <<"T", "a", "g">>

PropertyNames == {<<"x">>, <<"i", "d">>}

\* Documents without paths that vary the properties of the schema Pet and
\* have another schema Tag, as a string, as an unresolved reference, or not
\* at all.
ModelDocuments ==
    UNION {
      {ApiDocument(<<>>, <<>>,
                   (NamePet :> Schema("value", "object", props)) @@ other) :
          props \in UNION {[S -> PropertySet] : S \in SUBSET PropertyNames}}
      : other \in {<<>>,
                   (NameTag :> Schema("value", "string", <<>>)),
                   (NameTag :> Schema("ref", "", <<>>))} }

\* Documents of two paths, the first with {xxx} and two operations, the
\* second with one operation whose identifier may be that of an operation
\* of the first.
TwoPathDocuments ==
    {ApiDocument(<<>>,
                 (PathIDName :>
                     [GET |-> Operation(<<>>, <<"g", "e", "t", "A">>, params, NoContent200),
                      POST |-> Operation(<<>>, <<"b">>, params, NoContent200)])
                 @@ (PathB :> b),
                 <<>>) :
        params \in {<<>>,
                    <<Param(NameID, "path", TRUE, "string")>>,
                    <<Param(NameName, "path", TRUE, "integer"),
                      Param(NameID, "path", TRUE, "string")>>},
        b \in SingleItemsOf({Operation(<<>>, id, <<>>, NoContent200) :
                                 id \in RawOperationIDs})}

\* Documents that vary what is required: a response whose schema and whose
\* property each require the property's ref or nothing, and a schema Pet
\* that requires its property x or nothing.
RequiredDocuments ==
    {ApiDocument(<<>>,
                 (PathA :> [GET |-> Operation(<<>>, <<"b">>, <<>>,
                     RequiredResponse200("application/json", TRUE,
                         (<<"x">> :> RequiredProperty(RefTag, TRUE, "string", own)),
                         owner))]),
                 (NamePet :> RequiredSchema("value", "object",
                     (<<"x">> :> Property(<<>>, "value", "string", NoSchema, NoAdditional)),
                     named))) :
        own \in {<<>>, <<RefTag>>},
        owner \in {<<>>, <<RefTag>>},
        named \in {<<>>, <<<<"x">>>>}}

\* Documents of one operation whose path has an empty {}, an unclosed { or
\* the same {xxx} twice.
TemplateDocuments ==
    {ApiDocument(<<>>,
                 (path :> [GET |-> Operation(<<>>, <<"b">>, params, NoContent200)]),
                 <<>>) :
        path \in {PathEmpty, PathOpen, PathTwice},
        params \in {<<>>, <<Param(NameID, "path", TRUE, "string")>>}}

ApiDocuments ==
    IdentifierDocuments \cup OddDocuments \cup ParameterDocuments
    \cup TwoPathDocuments \cup TemplateDocuments \cup ResponseDocuments
    \cup ModelDocuments \cup RequiredDocuments

-----------------------------------------------------------------------------
(* The command oapi-generator: main, New and Generate with their effects  *)
(* on the file system.                                                     *)

\* what the location given by -out can be: nothing, an empty directory, a
\* directory that holds the output of an earlier run
OutStates == {"absent", "empty", "old"}

\* what the schema file given to the command can be: no file, a directory, a
\* file os.Stat fails on for another reason, bytes that do not decode, a
\* legacy document openapi2conv.ToV3 fails on, a document
SchemaFiles == {"missing", "dir", "noaccess", "malformed", "upgrade", "good"}

\* the g.files a generate call that succeeds can leave
FileSets == {{"client.go"}, {"client.go", "api_default.go"}}

\* the command before it runs
CmdIdle ==
    [pc |-> "idle", flagClean |-> FALSE, out |-> "absent", before |-> "absent",
     schema |-> "good", generator |-> FALSE, failed |-> "none",
     err |-> "none", files |-> {}, written |-> {}]

\* the command at the start of main, after flag.Parse
CmdStarts ==
    {[CmdIdle EXCEPT !.pc = "main", !.flagClean = c, !.out = o, !.before = o,
                     !.schema = f] :
        c \in BOOLEAN, o \in OutStates, f \in SchemaFiles}

\* the error of os.Stat on the location
Stat(location) == IF location = "absent" THEN "ErrNotExist" ELSE "nil"

\* os.IsExist(err): whether err reports that a file already exists
IsExist(err) == err = "ErrExist"

\* the command ends with the error kind (an error it prints, or a panic) in
\* the step step
Fails(c, step, kind) ==
    [c EXCEPT !.pc = "exit", !.failed = step, !.err = kind]

\* The -clean block of main (lines 47-54): os.Remove removes an empty
\* directory and fails on one that is not empty.
Cleaned(c) ==
    IF c.flagClean /\ IsExist(Stat(c.out))
    THEN IF c.out = "empty"
         THEN [c EXCEPT !.pc = "cleaned", !.out = "absent"]
         ELSE Fails(c, "clean", "error")
    ELSE [c EXCEPT !.pc = "cleaned"]

\* New(schemaType, pkgName, filename): the switch on os.Stat returns an
\* error for a missing file and for a directory; for another error of
\* os.Stat fi is nil and fi.IsDir() is a nil dereference; the decoder and
\* the conversion of a legacy document return their errors.
NewReturns(c) ==
    IF c.schema = "good" THEN [c EXCEPT !.pc = "loaded", !.generator = TRUE]
    ELSE IF c.schema = "noaccess" THEN Fails(c, "New", "panic")
    ELSE Fails(c, "New", "error")

\* generateReturns that makes the destination directory before it generates
generateReturnsInPlace(c, outcome, files) ==
    LET made == [c EXCEPT !.out = IF @ = "absent" THEN "empty" ELSE @]
    IN  IF outcome = "ok"
        THEN [made EXCEPT !.pc = "generated", !.files = files]
        ELSE Fails(made, "generate", outcome)

\* The call of g.generate in Generate (lines 221-223): generate fills
\* g.files in memory, returns an error when a file does not format, and may
\* end in a panic.
generateReturns(c, outcome, files) ==
    IF outcome = "ok"
    THEN [c EXCEPT !.pc = "generated", !.files = files]
    ELSE Fails(c, "generate", outcome)

\* os.MkdirAll(dst, 0755) in Generate (lines 225-227)
MkdirAllReturns(c, ok) ==
    IF ok
    THEN [c EXCEPT !.pc = "made", !.out = IF @ = "absent" THEN "empty" ELSE @]
    ELSE Fails(c, "MkdirAll", "error")

\* One pass of the loop over g.files in Generate (lines 229-241): when
\* os.Create fails f is nil and f.Name() is a nil dereference.
FileWritten(c, file, ok) ==
    IF ok THEN [c EXCEPT !.written = @ \cup {file}]
    ELSE Fails(c, "Create", "panic")

-----------------------------------------------------------------------------
(* The Generator as New leaves it.                                         *)

\* the state of a Generator that New just returned, for document d
NewGenerator(d) ==
    /\ doc = d
    /\ methods = <<>>
    /\ methodsOnce = FALSE
    /\ services = <<>>
    /\ servicesOnce = FALSE
    /\ crashed = FALSE
    /\ visited = {}
    /\ partitionRuns = 0
    /\ sortRuns = 0
    /\ cached = FALSE
    /\ produced = <<>>
    /\ models = <<>>
    /\ hung = FALSE

EmptyDocument == [Tags |-> <<>>, Paths |-> <<>>]

GenIdle == NewGenerator(EmptyDocument)

-----------------------------------------------------------------------------
(* The normalizer run: Depunct applied to a raw name, then to its result.  *)

Alphabet == {"i", "d", "I", "D", "U", "_", "-", "1"}

SampleNames == {
    <<"f", "o", "o", "-", "b", "a", "r", "_", "b", "a", "z">>,
    <<"t", "y", "p", "e">>, <<"T", "y", "p">>, <<"t", "y", "p">>,
    <<"U", "_", "_", "R", "l">>, <<"u", "r", "l">>, <<"U", "r", "l", "-", "i", "d">>,
    <<"a", ".", "b", "$", "c", "/", "d">>,
    <<"1", "_", "_", "_", "2", "_", "a">> }

RawNames == (UNION {[1..k -> Alphabet] : k \in 0..MaxLen}) \cup SampleNames

NoOutcome == [panic |-> FALSE, val |-> <<>>]

InitNorm ==
    /\ ident \in RawNames
    /\ needCap \in BOOLEAN
    /\ npc = "start"
    /\ sb = <<>>
    /\ fixed = <<>>
    /\ out = NoOutcome
    /\ out2 = NoOutcome
    /\ GenIdle
    /\ cmd = CmdIdle

\* name := Depunct(ident, needCap)
Normalize ==
    /\ npc = "start"
    /\ sb' = DepunctScan(ident, needCap)
    /\ fixed' = FixName(sb')
    /\ out' = DepunctFinish(fixed')
    /\ npc' = "done"
    /\ UNCHANGED <<ident, needCap, out2>>
    /\ UNCHANGED gvars
    /\ UNCHANGED cmd

\* Depunct(name, needCap), on the identifier the first call returned
Renormalize ==
    /\ npc = "done"
    /\ ~out.panic
    /\ out2' = Depunct(out.val, needCap)
    /\ npc' = "again"
    /\ UNCHANGED <<ident, needCap, sb, fixed, out>>
    /\ UNCHANGED gvars
    /\ UNCHANGED cmd

NextNorm == Normalize \/ Renormalize

SpecNorm == InitNorm /\ [][NextNorm]_vars

-----------------------------------------------------------------------------
(* The generator run: GetMethods and GetService called in any order.       *)

NormIdle ==
    /\ ident = <<>>
    /\ needCap = FALSE
    /\ npc = "idle"
    /\ sb = <<>>
    /\ fixed = <<>>
    /\ out = NoOutcome
    /\ out2 = NoOutcome

Init ==
    /\ \E d \in Documents : NewGenerator(d)
    /\ NormIdle
    /\ cmd = CmdIdle

\* GetMethods without the sync.Once: every call partitions again
GetMethodsNoOnce ==
    /\ ~crashed /\ ~hung
    /\ partitionRuns < 2
    /\ \E order \in VisitOrders(doc) :
         LET r == Partition(doc, order)
         IN  /\ methods' = r.methods
             /\ visited' = r.visited
             /\ crashed' = r.panic
    /\ methodsOnce' = TRUE
    /\ partitionRuns' = partitionRuns + 1
    /\ cached' = FALSE
    /\ UNCHANGED <<doc, services, servicesOnce, sortRuns, produced, models, hung>>
    /\ UNCHANGED nvars
    /\ UNCHANGED cmd

\* g.GetMethods()
GetMethods ==
    /\ ~crashed /\ ~hung
    /\ \/ /\ methodsOnce
          /\ UNCHANGED <<methods, methodsOnce, crashed, visited, partitionRuns>>
          /\ cached' = TRUE
       \/ /\ ~methodsOnce
          /\ \E order \in VisitOrders(doc) :
               LET r == Partition(doc, order)
               IN  /\ methods' = r.methods
                   /\ visited' = r.visited
                   /\ crashed' = r.panic
          /\ methodsOnce' = TRUE
          /\ partitionRuns' = partitionRuns + 1
          /\ cached' = FALSE
    /\ UNCHANGED <<doc, services, servicesOnce, sortRuns, produced, models, hung>>
    /\ UNCHANGED nvars
    /\ UNCHANGED cmd

\* SortedServices that leaves the keys in the order the range yielded them
UnsortedServices(keys) == keys

\* The function run by g.servicesOnce.Do, g.methods being ms: the keys in
\* the order the range yields them, sorted by Name.
SortedServices(keys) == SortStable(keys, Len(keys))

\* g.GetService(), the call of g.GetMethods() inside it included
GetService ==
    /\ ~crashed /\ ~hung
    /\ \/ /\ servicesOnce
          /\ UNCHANGED <<methods, methodsOnce, crashed, visited, services,
                         servicesOnce, partitionRuns, sortRuns>>
          /\ cached' = TRUE
       \/ /\ ~servicesOnce
          /\ methodsOnce
          /\ \E keys \in RangeOrders(DOMAIN methods) : services' = SortedServices(keys)
          /\ servicesOnce' = TRUE
          /\ sortRuns' = sortRuns + 1
          /\ cached' = FALSE
          /\ UNCHANGED <<methods, methodsOnce, crashed, visited, partitionRuns>>
       \/ /\ ~servicesOnce
          /\ ~methodsOnce
          /\ \E order \in VisitOrders(doc) :
               LET r == Partition(doc, order)
               IN  /\ methods' = r.methods
                   /\ visited' = r.visited
                   /\ crashed' = r.panic
                   /\ IF r.panic
                      THEN services' = services /\ sortRuns' = sortRuns
                      ELSE /\ \E keys \in RangeOrders(DOMAIN r.methods) :
                                services' = SortedServices(keys)
                           /\ sortRuns' = sortRuns + 1
          /\ methodsOnce' = TRUE
          /\ servicesOnce' = TRUE
          /\ partitionRuns' = partitionRuns + 1
          /\ cached' = FALSE
    /\ UNCHANGED <<doc, produced, models, hung>>
    /\ UNCHANGED nvars
    /\ UNCHANGED cmd

Next == GetMethods \/ GetService

Spec == Init /\ [][Next]_vars

-----------------------------------------------------------------------------
(* The generation run: generate calls GetService, then WriteAPI for every  *)
(* Service, then WriteModel for every schema.                              *)

InitGen ==
    /\ \E d \in ApiDocuments : NewGenerator(d)
    /\ NormIdle
    /\ cmd = CmdIdle

\* the state WriteMethods leaves when its outcome is r
WriteMethodsReturns(r) ==
    /\ doc' = r.doc
    /\ crashed' = r.panic
    /\ hung' = r.hang
    /\ produced' = IF r.panic \/ r.hang THEN produced ELSE Append(produced, r.out)

\* One pass of the loop of generate over g.GetService() (lines 300-317):
\* WriteAPI(tag) for the next Service, which ends in WriteMethods.
WriteAPI ==
    /\ ~crashed /\ ~hung
    /\ servicesOnce
    /\ Len(produced) < Len(services)
    /\ LET tag == services[Len(produced) + 1]
           svcName == Depunct(tag.Name, TRUE)
       IN  IF svcName.panic
           THEN crashed' = TRUE /\ UNCHANGED <<doc, produced, hung>>
           ELSE \E order \in GatherOrders(doc, methods[tag]) :
                  \E ros \in ResponseOrderChoices(doc, methods[tag]) :
                    WriteMethodsReturns(
                        WriteMethods(doc, methods[tag], svcName.val, order, ros))
    /\ UNCHANGED <<methods, methodsOnce, services, servicesOnce, visited,
                   partitionRuns, sortRuns, cached, models>>
    /\ UNCHANGED nvars
    /\ UNCHANGED cmd

\* One pass of the loop of generate over the sorted schema names (lines
\* 334-349): WriteModel for the next schema.
WriteModels ==
    /\ ~crashed /\ ~hung
    /\ servicesOnce
    /\ Len(produced) = Len(services)
    /\ Len(models) < Cardinality(DOMAIN doc.Schemas)
    /\ LET schemas == SortedKeys(DOMAIN doc.Schemas)
           name == schemas[Len(models) + 1]
           r == WriteModel(name, doc.Schemas[name], doc.Schemas)
       IN  /\ crashed' = r.panic
           /\ models' = IF r.panic THEN models ELSE Append(models, r.val)
    /\ UNCHANGED <<doc, methods, methodsOnce, services, servicesOnce, visited,
                   partitionRuns, sortRuns, cached, produced, hung>>
    /\ UNCHANGED nvars
    /\ UNCHANGED cmd

NextGen == GetMethods \/ GetService \/ WriteAPI \/ WriteModels

SpecGen == InitGen /\ [][NextGen]_vars

-----------------------------------------------------------------------------
(* The names of a document, each normalized as the Generator normalizes a  *)
(* parameter name, an operation identifier or a type name.                 *)

\* Longest name with brackets.
MaxName == 3

BracketAlphabet == {"a", "I", "]", "-"}

BracketNames == UNION {[1..k -> BracketAlphabet] : k \in 1..MaxName}

InitParam ==
    /\ ident \in BracketNames
    /\ needCap = FALSE
    /\ npc = "start"
    /\ sb = <<>>
    /\ fixed = <<>>
    /\ out = NoOutcome
    /\ out2 = NoOutcome
    /\ GenIdle
    /\ cmd = CmdIdle

\* paramName := NormalizeParam(Depunct(param.Value.Name, false))
NormalizeParameter ==
    /\ npc = "start"
    /\ out' = ParamName(ident)
    /\ npc' = "parameter"
    /\ UNCHANGED <<ident, needCap, sb, fixed, out2>>
    /\ UNCHANGED gvars
    /\ UNCHANGED cmd

\* o.OperationID = Depunct(o.OperationID, true), and the "Go idiom"
NormalizeOperation ==
    /\ npc = "start"
    /\ out' = NormalizedOperationID(ident)
    /\ npc' = "operation"
    /\ UNCHANGED <<ident, needCap, sb, fixed, out2>>
    /\ UNCHANGED gvars
    /\ UNCHANGED cmd

\* Depunct(modelName, true), Depunct(tag.Name, true), Depunct(name, true)
NormalizeType ==
    /\ npc = "start"
    /\ out' = Depunct(ident, TRUE)
    /\ npc' = "type"
    /\ UNCHANGED <<ident, needCap, sb, fixed, out2>>
    /\ UNCHANGED gvars
    /\ UNCHANGED cmd

NextParam == NormalizeParameter \/ NormalizeOperation \/ NormalizeType

SpecParam == InitParam /\ [][NextParam]_vars

-----------------------------------------------------------------------------
(* The run of the command: main cleans, loads the schema with New and      *)
(* calls Generate, which generates in memory, makes the directory and      *)
(* writes the files.                                                       *)

InitCmd ==
    /\ cmd \in CmdStarts
    /\ GenIdle
    /\ NormIdle

Clean ==
    /\ cmd.pc = "main"
    /\ cmd' = Cleaned(cmd)
    /\ UNCHANGED <<nvars, gvars>>

Load ==
    /\ cmd.pc = "cleaned"
    /\ cmd' = NewReturns(cmd)
    /\ UNCHANGED <<nvars, gvars>>

GenerateInMemory ==
    /\ cmd.pc = "loaded"
    /\ \E outcome \in {"ok", "error", "panic"} : \E files \in FileSets :
           cmd' = generateReturns(cmd, outcome, files)
    /\ UNCHANGED <<nvars, gvars>>

MkdirAll ==
    /\ cmd.pc = "generated"
    /\ \E ok \in BOOLEAN : cmd' = MkdirAllReturns(cmd, ok)
    /\ UNCHANGED <<nvars, gvars>>

WriteFile ==
    /\ cmd.pc = "made"
    /\ \E file \in cmd.files \ cmd.written : \E ok \in BOOLEAN :
           cmd' = FileWritten(cmd, file, ok)
    /\ UNCHANGED <<nvars, gvars>>

\* return g.f.Close()
Finish ==
    /\ cmd.pc = "made"
    /\ cmd.files = cmd.written
    /\ cmd' = [cmd EXCEPT !.pc = "done"]
    /\ UNCHANGED <<nvars, gvars>>

NextCmd == Clean \/ Load \/ GenerateInMemory \/ MkdirAll \/ WriteFile \/ Finish

SpecCmd == InitCmd /\ [][NextCmd]_vars

-----------------------------------------------------------------------------
(* Claims about the identifier normalizer, checked under SpecNorm.         *)

Returned == npc # "start" /\ ~out.panic

\* the punctuation the normalizer is to eliminate, '_' aside
ElidedChars == {"-", ".", "$", "/"}

\* C1: identifier normalization is idempotent: normalizing the identifier
\* that Depunct returned, with the same flag, returns that identifier again.
C1_Idempotent == npc = "again" => out2 = out

\* the characters of s that are not underscores
StripUS(s) == SelectSeq(s, LAMBDA c : c # "_")

RECURSIVE UnderscoreRuns(_, _, _)
UnderscoreRuns(s, k, run) ==
    IF k > Len(s) THEN (IF run >= 2 THEN <<run>> ELSE <<>>)
    ELSE IF s[k] = "_" THEN UnderscoreRuns(s, k + 1, run + 1)
    ELSE (IF run >= 2 THEN <<run>> ELSE <<>>) \o UnderscoreRuns(s, k + 1, 0)

\* C3: every run of two or more underscores of the raw name is kept in the
\* returned identifier with its length, the letters around it unchanged, and
\* Depunct("__id", false) = "__id".
C3_UnderscoreRunsKept ==
    Returned =>
        /\ UnderscoreRuns(out.val, 1, 0) = UnderscoreRuns(ident, 1, 0)
        /\ (ident = <<"_", "_", "i", "d">> /\ ~needCap) => out.val = ident

\* the number of characters of s[1..k] that are not underscores
NonUS(s, k) == Cardinality({j \in 1..k : s[j] # "_"})

\* s[k] is the last character of a word: the string ends, an underscore
\* follows, or a lower-case character is followed by one that is not
IsWordEnd(s, k) ==
    /\ s[k] # "_"
    /\ \/ k = Len(s)
       \/ s[k + 1] = "_"
       \/ IsLower(s[k]) /\ ~IsLower(s[k + 1])

IsWordStart(s, k) ==
    /\ s[k] # "_"
    /\ \/ k = 1
       \/ s[k - 1] = "_"
       \/ IsLower(s[k - 1]) /\ ~IsLower(s[k])

IsWord(s, a, b) ==
    /\ a <= b
    /\ IsWordStart(s, a)
    /\ IsWordEnd(s, b)
    /\ \A k \in a..(b - 1) : ~IsWordEnd(s, k)

C5_NeverFails == npc # "start" => ~out.panic

\* C6: no returned identifier begins with a decimal digit; when the
\* word-fixed name begins with one, the result is "X_" followed by it.
C6_NoLeadingDigit ==
    Returned =>
        /\ ~IsDigit(out.val[1])
        /\ IsDigit(fixed[1]) => out.val = <<"X", "_">> \o fixed

C6_Witness == Returned /\ IsDigit(fixed[1]) /\ out.val[1] = "X"

\* ident[k] is elided by the scan: one of '-', '.', '$', '/', or a lone '_'
Elided(id, k) ==
    \/ id[k] \in ElidedChars
    \/ /\ id[k] = "_"
       /\ k = 1 \/ id[k - 1] # "_"
       /\ k = Len(id) \/ id[k + 1] # "_"

\* the indexes of the characters of the raw name that are not elided
RetainedIdx(id) ==
    SelectSeq([k \in 1..Len(id) |-> k], LAMBDA k : ~Elided(id, k))

\* the j-th retained character is to be upper-cased: it follows an elided
\* character, or it is the first one and cap is set
Forced(id, cap, j) ==
    \/ cap /\ j = 1
    \/ RetainedIdx(id)[j] > 1 /\ Elided(id, RetainedIdx(id)[j] - 1)

\* the raw name without its elided characters, the forced ones upper-cased
Retained(id, cap) ==
    [j \in 1..Len(RetainedIdx(id)) |->
        IF Forced(id, cap, j)
        THEN ToUpper(id[RetainedIdx(id)[j]]) ELSE id[RetainedIdx(id)[j]]]

\* C7: Depunct removes each '-', '.', '$', '/' and each lone '_' and
\* upper-cases the next retained character, and the first retained one under
\* capitalizeFirst: so reads the builder after the scan, and so stands every
\* such character in the returned identifier; and
\* Depunct("foo-bar_baz", true) = "FooBarBaz".
C7_ElideAndCapitalize ==
    npc # "start" =>
        /\ sb = Retained(ident, needCap)
        /\ ~out.panic =>
              \A j \in 1..Len(sb) :
                  (sb[j] # "_" /\ Forced(ident, needCap, j))
                  => LET off == IF IsDigit(fixed[1]) THEN 1 ELSE 0
                     IN  StripUS(out.val)[off + NonUS(sb, j)]
                            = ToUpper(ident[RetainedIdx(ident)[j]])
        /\ (ident = <<"f", "o", "o", "-", "b", "a", "r", "_", "b", "a", "z">> /\ needCap)
              => out = [panic |-> FALSE,
                        val |-> <<"F", "o", "o", "B", "a", "r", "B", "a", "z">>]

C7_Witness ==
    /\ npc = "done"
    /\ ident = <<"f", "o", "o", "-", "b", "a", "r", "_", "b", "a", "z">>
    /\ needCap
    /\ out.val = <<"F", "o", "o", "B", "a", "r", "B", "a", "z">>

-----------------------------------------------------------------------------
(* Claims about the service partitioning, checked under Spec.              *)

\* the methods of path p whose operation carries a number of tags in K
OpsWithTags(p, K) == {v \in DOMAIN doc.Paths[p] : Len(doc.Paths[p][v].Tags) \in K}

\* how often Service s holds the item of path p under p
Attachments(s, p) ==
    IF p \in DOMAIN methods[s]
    THEN Cardinality({k \in 1..Len(methods[s][p]) : methods[s][p][k] = p})
    ELSE 0

\* C8 as claimed: for a document without tags GetMethods creates the default
\* Service alone, and the path item of every operation, whatever its number
\* of tags, is attached to it.
C8_AllOperationsAttached ==
    (methodsOnce /\ Len(doc.Tags) = 0) =>
        /\ ~crashed
        /\ DOMAIN methods = {defaultService}
        /\ \A p \in DOMAIN doc.Paths :
              DOMAIN doc.Paths[p] # {} => Attachments(defaultService, p) > 0

\* C8 as amended: for a document without tags GetMethods creates the default
\* Service alone and attaches to it, once for each operation that carries
\* zero or one tag, the operation's path item; an operation that carries
\* two or more tags attaches nothing.
C8_DefaultServiceOnly ==
    (methodsOnce /\ Len(doc.Tags) = 0) =>
        /\ ~crashed
        /\ DOMAIN methods = {defaultService}
        /\ DOMAIN methods[defaultService] \subseteq DOMAIN doc.Paths
        /\ \A p \in DOMAIN doc.Paths :
              /\ Attachments(defaultService, p) = Cardinality(OpsWithTags(p, {0, 1}))
              /\ p \in DOMAIN methods[defaultService]
                    => Len(methods[defaultService][p]) = Attachments(defaultService, p)

C8_Witness ==
    /\ methodsOnce
    /\ Len(doc.Tags) = 0
    /\ \E p, q \in DOMAIN doc.Paths :
          /\ OpsWithTags(p, {0}) # {}
          /\ OpsWithTags(p, {1}) # {}
          /\ OpsWithTags(q, {0, 1}) = {}
          /\ OpsWithTags(q, 2..MaxOpTags) # {}
          /\ Attachments(defaultService, p) = 2
          /\ Attachments(defaultService, q) = 0

\* C9: for a document with tags GetMethods creates a Service for every
\* declared tag, completes, and has attached the path item of every
\* operation without tags to the default Service.
C9_UntaggedToDefault ==
    (methodsOnce /\ Len(doc.Tags) >= 1) =>
        /\ ~crashed
        /\ \A k \in 1..Len(doc.Tags) : TagService(doc, k) \in DOMAIN methods
        /\ \A p \in DOMAIN doc.Paths :
              OpsWithTags(p, {0}) # {}
              => /\ defaultService \in DOMAIN methods
                 /\ Attachments(defaultService, p) > 0

NormalizedName(s) == Depunct(s.Name, TRUE).val

\* C11 as stated: the Services GetService returns are in ascending order of
\* their normalized names Depunct(Name, true).
C11_SortedByNormalizedName ==
    servicesOnce /\ ~crashed =>
        \A i, j \in 1..Len(services) :
            i < j => ~StrLess(NormalizedName(services[j]), NormalizedName(services[i]))

\* C11: the Services GetService returns are every key of g.methods, once
\* each, in ascending byte order of their raw Name, whatever the order in
\* which the document declares its tags.
C11_SortedByRawName ==
    servicesOnce /\ ~crashed =>
        /\ {services[i] : i \in 1..Len(services)} = DOMAIN methods
        /\ Len(services) = Cardinality(DOMAIN methods)
        /\ \A i, j \in 1..Len(services) :
               i < j => ~StrLess(services[j].Name, services[i].Name)

\* two tags declared in descending order of their names were sorted
C11_Witness ==
    /\ servicesOnce /\ ~crashed
    /\ Len(doc.Tags) = 2
    /\ StrLess(doc.Tags[2], doc.Tags[1])
    /\ Len(services) = 2
    /\ services[1].Name = doc.Tags[2]
    /\ services[2].Name = doc.Tags[1]

\* C18: whatever GetService and GetMethods calls are made on one Generator,
\* the partition and the sort are each computed at most once, exactly once
\* as soon as a call of GetMethods resp. GetService has returned, and no
\* later call changes the structure an earlier one returned.
C18_ComputedOnce ==
    /\ [](/\ partitionRuns <= 1
          /\ sortRuns <= 1
          /\ (methodsOnce /\ ~crashed => partitionRuns = 1)
          /\ (servicesOnce /\ ~crashed => partitionRuns = 1 /\ sortRuns = 1))
    /\ [][/\ (partitionRuns >= 1 => methods' = methods)
          /\ (sortRuns >= 1 => services' = services)]_vars

\* both computations have run on a document with two tags and an operation,
\* and a further call was answered from what they left
C18_Witness ==
    /\ methodsOnce /\ servicesOnce /\ ~crashed
    /\ cached
    /\ partitionRuns = 1 /\ sortRuns = 1
    /\ Len(services) = 2
    /\ visited # {}

-----------------------------------------------------------------------------
(* Claims about the generation run, checked under SpecGen.                 *)

\* the Methods WriteAPI has just produced for the Service it was called for
JustProduced == produced'[Len(produced')]

\* the path items attached to the Service WriteAPI was just called for
JustWritten == methods[services[Len(produced')]]

\* C12 as stated: when WriteAPI returns for a Service, every (path, verb) of
\* the Service's attached path items that resolves to an operation has its
\* Method, unless another Method of the Service holds the normalized
\* identifier of that operation.
C12_OneMethodPerPair ==
    [][Len(produced') > Len(produced) =>
         \A p \in DOMAIN JustWritten :
           \A i \in 1..Len(JustWritten[p]) :
             \A v \in DOMAIN doc.Paths[JustWritten[p][i]] :
               \/ \E j \in 1..Len(JustProduced) :
                     /\ JustProduced[j].path = p
                     /\ JustProduced[j].method = MethodBytes[v]
               \/ \E j \in 1..Len(JustProduced) :
                     /\ JustProduced[j].id =
                            doc'.Paths[JustWritten[p][i]][v].OperationID
                     /\ \/ JustProduced[j].path # p
                        \/ JustProduced[j].method # MethodBytes[v]]_vars

\* (path, verb) of the Method m comes before that of the Method n
PairLess(m, n) ==
    \/ StrLess(m.path, n.path)
    \/ m.path = n.path /\ StrLess(m.method, n.method)

\* the Methods ms are in strictly ascending order of (path, verb)
Ascending(ms) == \A i, j \in 1..Len(ms) : i < j => PairLess(ms[i], ms[j])

\* the document of the example: no tags, GET /a and POST /b, and WriteAPI
\* has returned for its single Service
GetAPostB ==
    /\ doc.Tags = <<>>
    /\ DOMAIN doc.Paths = {PathA, PathB}
    /\ DOMAIN doc.Paths[PathA] = {"GET"}
    /\ DOMAIN doc.Paths[PathB] = {"POST"}
    /\ Len(produced) = 1

JustResolved ==
    {t \in (DOMAIN JustWritten) \X Verbs :
        \E i \in 1..Len(JustWritten[t[1]]) :
            t[2] \in DOMAIN doc.Paths[JustWritten[t[1]][i]]}

\* the identifier the operation of the pair t has when the Methods are made
JustNormalized(t) == doc'.Paths[t[1]][t[2]].OperationID

\* the pair t is not after the pair u in (sorted path, sorted verb) order
NotAfter(t, u) ==
    \/ StrLess(t[1], u[1])
    \/ t[1] = u[1] /\ ~StrLess(MethodBytes[u[2]], MethodBytes[t[2]])

\* C14 as stated: when WriteAPI returns for a Service, no two of its Methods
\* have the same normalized operation identifier, and of several operations
\* of the Service with the same normalized identifier the first in (sorted
\* path, sorted verb) order has the one Method with that identifier.
C14_FirstVisitedWins ==
    [][Len(produced') > Len(produced) =>
         /\ \A i, j \in 1..Len(JustProduced) :
                i # j => JustProduced[i].id # JustProduced[j].id
         /\ \A t \in JustResolved :
                (/\ \E u \in JustResolved \ {t} : JustNormalized(u) = JustNormalized(t)
                 /\ \A u \in JustResolved :
                        JustNormalized(u) = JustNormalized(t) => NotAfter(t, u))
                => \E j \in 1..Len(JustProduced) :
                       /\ JustProduced[j].id = JustNormalized(t)
                       /\ JustProduced[j].path = t[1]
                       /\ JustProduced[j].method = MethodBytes[t[2]]]_vars

\* where {name} first stands in the path template, 0 if nowhere
PlaceholderAt(path, name) ==
    LET text == <<"{">> \o name \o <<"}">>
        At0 == {i \in 1..(Len(path) - Len(text) + 1) :
                   SubSeq(path, i, i + Len(text) - 1) = text}
    IN  IF At0 = {} THEN 0 ELSE CHOOSE i \in At0 : \A j \in At0 : i <= j

\* the operation the Method m was made for
OperationOf(m) ==
    doc.Paths[m.path][CHOOSE v \in Verbs : MethodBytes[v] = m.method]

\* the names of the path parameters the operation op declares, as declared
DeclaredPathNames(op) ==
    LET InPath(p) == p.In = "path"
        ps == SelectSeq(op.Parameters, InPath)
    IN  [k \in 1..Len(ps) |-> ps[k].Name]

\* the path parameters of the Method m stand in the order of their {name}
\* in its path, and are the declared ones that have a {name}
InPlaceholderOrder(m) ==
    /\ \A i \in 1..Len(m.pathParam) : PlaceholderAt(m.path, m.pathParam[i]) > 0
    /\ \A i, j \in 1..Len(m.pathParam) :
           i < j => PlaceholderAt(m.path, m.pathParam[i])
                        <= PlaceholderAt(m.path, m.pathParam[j])
    /\ {m.pathParam[i] : i \in 1..Len(m.pathParam)} =
           {n \in {DeclaredPathNames(OperationOf(m))[i] :
                      i \in 1..Len(DeclaredPathNames(OperationOf(m)))} :
               PlaceholderAt(m.path, n) > 0}

\* C15: the path parameters of every Method produced are in the left-to-right
\* order of the {name} of its path, whatever the order in which they are
\* declared and whatever the order of their names; for "/a/{id}/b/{name}"
\* with the declared parameters name and id they are [id, name].
C15_PlaceholderOrder ==
    \A k \in 1..Len(produced) :
      \A j \in 1..Len(produced[k]) :
        /\ InPlaceholderOrder(produced[k][j])
        /\ (/\ produced[k][j].path = PathIDName
            /\ DeclaredPathNames(OperationOf(produced[k][j]))
                   \in {<<NameName, NameID>>, <<NameID, NameName>>})
           => produced[k][j].pathParam = <<NameID, NameName>>

\* a Method was produced for "/a/{id}/b/{name}" with the parameters declared
\* as [name, id]
C15_Witness ==
    /\ Len(produced) = 1
    /\ Len(produced[1]) >= 1
    /\ produced[1][1].path = PathIDName
    /\ DeclaredPathNames(OperationOf(produced[1][1])) = <<NameName, NameID>>
    /\ produced[1][1].pathParam = <<NameID, NameName>>

\* the document declares no tags and every operation has an identifier:
\* neither the partitioning nor the normalizer can then end in a panic
PlainDocument ==
    /\ doc.Tags = <<>>
    /\ \A p \in DOMAIN doc.Paths : \A v \in DOMAIN doc.Paths[p] :
           doc.Paths[p][v].OperationID # <<>>

\* C16 as stated: generation of a document with an element of unknown type
\* or an unresolved reference (a parameter without schema, a property whose
\* $ref names no schema, an array without items, an operation without a 200
\* response) never ends in a panic.
C16_NeverRaises == PlainDocument => ~crashed

\* the specification types the type table has
TableTypes == DOMAIN typeConvMap

\* nothing of the Method m is made for a parameter of a type outside the
\* table: every constructor argument has a type of the table, every field
\* initializer sets a field the call struct has, every setter has a Go type
NoUnmappedParameter(m) ==
    /\ \A i \in 1..Len(m.args) : m.args[i].type \in TableTypes
    /\ \A i \in 1..Len(m.inits) :
           \E f \in 1..Len(m.fields) :
               m.fields[f].name = NormalizeParam(m.inits[i]).val
    /\ \A i \in 1..Len(m.setters) : m.setters[i].type # ""

\* the properties of the schema name whose own type is outside the table
UnmappedProperties(name) ==
    {x \in DOMAIN doc.Schemas[name].Properties :
        LET property == doc.Schemas[name].Properties[x]
        IN  /\ property.Ref = <<>>
            /\ property.kind = "value"
            /\ property.Type \notin TableTypes}

\* the model md has neither a field nor an accessor for the property x
NoUnmappedProperty(md, x) ==
    /\ \A i \in 1..Len(md.fields) : md.fields[i].json # x
    /\ \A i \in 1..Len(md.accessors) : md.accessors[i].json # x

\* C17 as stated: a parameter whose type the type table has not gets no
\* struct field, no constructor argument, no field initializer and no
\* setter in its Method, and a property whose type the table has not gets no
\* field and no accessor in its Model.
C17_UnmappedDropped ==
    /\ \A k \in 1..Len(produced) : \A j \in 1..Len(produced[k]) :
           NoUnmappedParameter(produced[k][j])
    /\ \A k \in 1..Len(models) :
           \A x \in UnmappedProperties(SortedKeys(DOMAIN doc.Schemas)[k]) :
               NoUnmappedProperty(models[k], x)

\* C19 as stated: no step of the generation (GetMethods, GetService,
\* WriteAPI with its WriteMethods, WriteModel) changes a field of the
\* document; an operation has after it the operation identifier it had.
C19_DocumentReadOnly == [][doc' = doc]_vars

\* the Service WriteAPI is called for next
NextService == services[Len(produced) + 1]

\* WriteMethods for the next Service with its range loops run in one fixed
\* order
OneRun ==
    WriteMethods(doc, methods[NextService], Depunct(NextService.Name, TRUE).val,
                 CHOOSE order \in GatherOrders(doc, methods[NextService]) : TRUE,
                 CHOOSE ros \in ResponseOrderChoices(doc, methods[NextService]) : TRUE)

\* path, verb and identifier of the Methods ms, in their order
MethodKeys(ms) ==
    [j \in 1..Len(ms) |-> <<ms[j].path, ms[j].method, ms[j].id>>]

\* the step leaves what the run r of WriteMethods leaves
SameAs(r) ==
    /\ crashed' = r.panic
    /\ hung' = r.hang
    /\ ~r.panic /\ ~r.hang =>
           /\ Len(produced') = Len(produced) + 1
           /\ MethodKeys(JustProduced) = MethodKeys(r.out)
           /\ doc' = r.doc

\* the names of the Services are the declared tag names in ascending order,
\* or that of the default Service alone
InTagOrder ==
    /\ Len(services) = IF doc.Tags = <<>> THEN 1 ELSE Len(doc.Tags)
    /\ {services[i].Name : i \in 1..Len(services)} =
           IF doc.Tags = <<>> THEN {defaultService.Name}
           ELSE {doc.Tags[i] : i \in 1..Len(doc.Tags)}
    /\ \A i, j \in 1..Len(services) :
           i < j => StrLess(services[i].Name, services[j].Name)

\* C20: the sequence of Services is a function of the document, and every
\* call of WriteAPI leaves, whatever the order in which its maps are ranged
\* over, what it leaves for one fixed order: the same Methods in the same
\* sequence and the same document, or the same failure.
C20_SameOrderEveryRun ==
    /\ [](servicesOnce /\ ~crashed => InTagOrder)
    /\ [][(/\ servicesOnce /\ ~crashed /\ ~hung
           /\ Len(produced) < Len(services)
           /\ ~Depunct(NextService.Name, TRUE).panic
           /\ <<produced, crashed, hung>>' # <<produced, crashed, hung>>)
          => SameAs(OneRun)]_vars

\* both Services of a document with two tags have two Methods of two paths,
\* each path with two operations
C20_Witness ==
    /\ Len(produced) = 2
    /\ \A k \in 1..2 :
           /\ Len(produced[k]) = 2
           /\ produced[k][1].path # produced[k][2].path
    /\ \E p \in DOMAIN doc.Paths : Cardinality(DOMAIN doc.Paths[p]) = 2

\* C21 as stated: the scan of a path template for its {xxx} ends for every
\* template, also one with an empty {} or an unclosed {, so that no call of
\* WriteMethods runs for ever.
C21_ScanEnds == ~hung

\* whether the name is in the list of required names
IsRequired(name, required) == \E k \in 1..Len(required) : required[k] = name

\* the schemas of the 200 response of the operation op that own a property
\* with the reference ref
OwnersOf(op, ref) ==
    {op.Responses["200"].Content[c] : c \in
        {c \in DOMAIN op.Responses["200"].Content :
            \E x \in DOMAIN op.Responses["200"].Content[c].Properties :
                op.Responses["200"].Content[c].Properties[x].Ref = ref}}

RECURSIVE SubstitutedByName(_, _)
SubstitutedByName(path, names) ==
    LET Opens == {i \in 1..Len(path) : path[i] = "{"}
        open == CHOOSE i \in Opens : \A j \in Opens : i <= j
        Closes == {i \in 1..Len(path) : i > open /\ path[i] = "}"}
        close == CHOOSE i \in Closes : \A j \in Closes : i <= j
        name == SubSeq(path, open + 1, close - 1)
    IN  IF Opens = {} THEN path
        ELSE IF Closes = {} THEN path
        ELSE SubSeq(path, 1, open - 1)
             \o (IF name \in names
                 THEN Substitution(Depunct(name, FALSE).val)
                 ELSE SubSeq(path, open, close))
             \o SubstitutedByName(SubSeq(path, close + 1, Len(path)), names)

\* C25 as stated: in the request path of every Method a {xxx} without a
\* declared path parameter of its name is left as it is, and a {xxx} with
\* one is replaced by the expression of that parameter, wherever the {xxx}
\* stand in the template.
C25_SubstitutedByName ==
    \A k \in 1..Len(produced) : \A j \in 1..Len(produced[k]) :
        produced[k][j].uri =
            SubstitutedByName(
                produced[k][j].path,
                {DeclaredPathNames(OperationOf(produced[k][j]))[i] :
                    i \in 1..Len(DeclaredPathNames(OperationOf(produced[k][j])))})

\* What the run has recorded about the operations GetMethods visited: the
\* Generator has no field for skipped items (lines 126-139), and the only
\* line GetMethods writes is the one to os.Stderr for an operation without
\* tags (line 419).
Diagnostics ==
    {pv \in visited : Len(doc.Paths[pv[1]][pv[2]].Tags) = 0}

\* C27 as stated, for the operations left out of every Service: every
\* operation GetMethods visited and attached to no Service because it has
\* more than one tag is in what the run recorded.
C27_SkippedRecorded ==
    \A pv \in visited :
        Len(doc.Paths[pv[1]][pv[2]].Tags) > 1 => pv \in Diagnostics

\* C28 as stated: every Method produced is the Method of an operation with
\* no tag or one tag.
C28_AtMostOneTag ==
    \A k \in 1..Len(produced) : \A j \in 1..Len(produced[k]) :
        Len(OperationOf(produced[k][j]).Tags) <= 1

\* how often x stands in the sequence s
Occurrences(s, x) == Cardinality({i \in 1..Len(s) : s[i] = x})

\* C29 as stated: the path parameters of every Method produced are the
\* declared path parameters of its operation rearranged, each as often as it
\* is declared and nothing else.
C29_Rearrangement ==
    \A k \in 1..Len(produced) : \A j \in 1..Len(produced[k]) :
        LET declared == DeclaredPathNames(OperationOf(produced[k][j]))
            reordered == produced[k][j].pathParam
        IN  /\ Len(reordered) = Len(declared)
            /\ \A i \in 1..Len(declared) :
                   Occurrences(reordered, declared[i]) = Occurrences(declared, declared[i])

-----------------------------------------------------------------------------
(* Claims about the command, checked under SpecCmd.                        *)

\* the run has made no directory and created no file
NothingWritten ==
    /\ cmd.written = {}
    /\ cmd.out \in {cmd.before, "absent"}

\* C22: when New fails (no file, a directory, bytes that do not decode, a
\* legacy document that does not convert) there is no Generator, and when
\* New or the in-memory generation fails the command ends without having
\* made the destination directory or created a file; what has failed stays
\* failed.
C22_NoPartialOutput ==
    /\ [](cmd.failed = "New" => ~cmd.generator /\ cmd.pc = "exit")
    /\ [](cmd.failed \in {"New", "generate"} => NothingWritten)
    /\ [](cmd.schema # "good" /\ cmd.pc \notin {"main", "cleaned"}
             => cmd.failed \in {"clean", "New"})
    /\ [][cmd.pc = "exit" => cmd' = cmd]_vars

\* the in-memory generation failed for an output location that did not exist
C22_Witness ==
    /\ cmd.pc = "exit"
    /\ cmd.failed = "generate"
    /\ cmd.generator
    /\ cmd.before = "absent"
    /\ cmd.out = "absent"

\* C23 as stated: with -clean and an -out location that exists, the earlier
\* output is gone when main goes on to load the schema.
C23_CleanedBeforeLoad ==
    cmd.flagClean /\ cmd.before # "absent" /\ cmd.pc = "cleaned"
        => cmd.out = "absent"

-----------------------------------------------------------------------------
(* Claims about the names with brackets, checked under SpecParam.          *)

\* C26 as stated: whatever a name with a "]" is normalized as (parameter,
\* operation identifier, type), the normalizer does not fail, also when
\* nothing follows the "]", and nothing up to the last "]" is left in the
\* identifier.
C26_BracketPrefixStripped ==
    (npc # "start" /\ \E k \in 1..Len(ident) : ident[k] = "]")
        => /\ ~out.panic
           /\ \A k \in 1..Len(out.val) : out.val[k] # "]"

=============================================================================
